---- MODULE Spec2Model ----
(***************************************************************************)
(* Weight engine of the dietary environmental impact dashboard (RMCW2.py): *)
(* adjust_weights, the update_weights callback that stores its result and  *)
(* the impact score computed by update_sunburst.                           *)
(*                                                                         *)
(* Python floats are modelled as exact rationals <<numerator,denominator>> *)
(* in lowest terms with a positive denominator.  Python list indices are   *)
(* kept 0-based (and may be negative); Pos maps them to TLA+ positions.    *)
(***************************************************************************)
EXTENDS Integers, Sequences, FiniteSets, TLC

VARIABLES
    current_weights,   \* adjust_weights: argument current_weights
    index,             \* adjust_weights: argument index
    new_value,         \* adjust_weights: argument new_value
    weights,           \* adjust_weights: local list when line 116 is reached
    result,            \* adjust_weights: outcome of the call
    pc,                \* adjust_weights: position in the call
    stored_weights,    \* dcc.Store "stored-weights"
    callback,          \* outcome of the last update_weights callback
    impact_score,      \* temp_df['impact_score'] of the last figure
    sunburst_pending,  \* update_sunburst is due (its Input changed)
    agg_df             \* the aggregated table loaded at start-up

vars == <<current_weights, index, new_value, weights, result, pc,
          stored_weights, callback, impact_score, sunburst_pending, agg_df>>

adjust_vars == <<current_weights, index, new_value, weights, result, pc>>
dash_vars == <<stored_weights, callback, impact_score, sunburst_pending, agg_df>>

----------------------------------------------------------------------------
(* Rational arithmetic standing for float arithmetic *)

AbsInt(n) == IF n < 0 THEN -n ELSE n

RECURSIVE GCD(_, _)
GCD(a, b) == IF b = 0 THEN a ELSE GCD(b, a % b)

Rat(n, d) ==
    LET g == GCD(AbsInt(n), AbsInt(d))
        s == IF d < 0 THEN -1 ELSE 1
    IN  <<s * (n \div g), s * (d \div g)>>

Zero == <<0, 1>>
One == <<1, 1>>

RNeg(x) == <<-x[1], x[2]>>

RAdd(x, y) ==
    LET g == GCD(x[2], y[2])
    IN  Rat(x[1] * (y[2] \div g) + y[1] * (x[2] \div g), (x[2] \div g) * y[2])

RSub(x, y) == RAdd(x, RNeg(y))

RMul(x, y) ==
    LET g1 == GCD(AbsInt(x[1]), y[2])
        g2 == GCD(AbsInt(y[1]), x[2])
    IN  <<(x[1] \div g1) * (y[1] \div g2), (x[2] \div g2) * (y[2] \div g1)>>

\* x / y for y # 0
RDiv(x, y) ==
    RMul(x, IF y[1] < 0 THEN <<-y[2], -y[1]>> ELSE <<y[2], y[1]>>)

\* x <= y, by integer parts and then the reciprocals of the fractional
\* parts, so that no cross product is formed
RECURSIVE RLe(_, _)
RLe(x, y) ==
    LET fx == x[1] \div x[2]
        fy == y[1] \div y[2]
        rx == x[1] % x[2]
        ry == y[1] % y[2]
    IN  IF fx # fy THEN fx < fy
        ELSE IF rx = 0 THEN TRUE
        ELSE IF ry = 0 THEN FALSE
        ELSE RLe(<<y[2], ry>>, <<x[2], rx>>)

RLt(x, y) == ~RLe(y, x)

RAbs(x) == <<AbsInt(x[1]), x[2]>>

\* Python's min(a, b): a unless b < a
RMin(a, b) == IF RLt(b, a) THEN b ELSE a

\* Python's sum(list): 0 + list[0] + list[1] + ...
RECURSIVE PySumFrom(_, _, _)
PySumFrom(acc, ws, k) ==
    IF k > Len(ws) THEN acc ELSE PySumFrom(RAdd(acc, ws[k]), ws, k + 1)

PySum(ws) == PySumFrom(Zero, ws, 1)

----------------------------------------------------------------------------
(* Python list indexing *)

InRange(ws, i) == i >= -Len(ws) /\ i < Len(ws)

Pos(ws, i) == IF i < 0 THEN i + Len(ws) + 1 ELSE i + 1

GetItem(ws, i) == ws[Pos(ws, i)]

SetItem(ws, i, v) == [ws EXCEPT ![Pos(ws, i)] = v]

----------------------------------------------------------------------------
(* Program constants *)

INITIAL_WEIGHTS == <<Rat(1, 4), Rat(1, 4), Rat(1, 4), Rat(1, 4)>>

\* the 1e-6 of the early exit and of the normalisation trigger
Tolerance == Rat(1, 1000000)

\* dcc.Slider(min=0, max=1, step=0.05): the values are k / SliderSteps
SliderSteps == 20

----------------------------------------------------------------------------
(* adjust_weights *)

Ok(ws) == [kind |-> "ok", weights |-> ws]
Raise(e) == [kind |-> e, weights |-> <<>>]
NoCall == [kind |-> "none", weights |-> <<>>]

\* line 93
Delta(cw, idx, nv) == RSub(nv, GetItem(cw, idx))

AssignAdd(cw, idx, nv) == SetItem(cw, idx, RAdd(GetItem(cw, idx), nv))

\* line 94: weights[index] = new_value, on the copy
Assign(cw, idx, nv) == SetItem(cw, idx, nv)

DirectionFlipped(delta) == IF RLt(delta, Zero) THEN -1 ELSE 1

\* line 100
Direction(delta) == IF RLt(Zero, delta) THEN -1 ELSE 1

\* line 104
Available(ws, i, direction) ==
    IF direction = -1 THEN GetItem(ws, i) ELSE RSub(One, GetItem(ws, i))

AdjustmentUnclamped(remaining_delta, available) == remaining_delta

\* line 105
Adjustment(remaining_delta, available) == RMin(remaining_delta, available)

AbsorbedExactly(remaining_delta) == RLe(remaining_delta, Zero)

\* line 113
Absorbed(remaining_delta) == RLe(remaining_delta, Tolerance)

\* the loop of lines 103-114, from position i on
RECURSIVE Walk(_, _, _, _)
Walk(ws, i, remaining_delta, direction) ==
    IF i >= Len(ws) THEN ws
    ELSE LET available == Available(ws, i, direction)
             adjustment == Adjustment(remaining_delta, available)
             ws2 == SetItem(ws, i, IF direction = -1
                                   THEN RSub(GetItem(ws, i), adjustment)
                                   ELSE RAdd(GetItem(ws, i), adjustment))
             rem2 == RSub(remaining_delta, adjustment)
         IN  IF Absorbed(rem2) THEN ws2
             ELSE Walk(ws2, i + 1, rem2, direction)

\* the list `weights` when line 116 is reached (delta # 0)
Redistribute(cw, idx, nv) ==
    LET delta == Delta(cw, idx, nv)
    IN  Walk(Assign(cw, idx, nv), idx + 1, RAbs(delta), Direction(delta))

NormalizeAlways(ws) ==
    LET total == PySum(ws)
    IN  IF total = Zero THEN Raise("ZeroDivisionError")
        ELSE Ok([k \in DOMAIN ws |-> RDiv(ws[k], total)])

NormalizeSurplusOnly(ws) ==
    LET total == PySum(ws)
    IN  IF RLt(Tolerance, RSub(total, One))
        THEN Ok([k \in DOMAIN ws |-> RDiv(ws[k], total)])
        ELSE Ok(ws)

\* lines 116-121
Normalize(ws) ==
    LET total == PySum(ws)
    IN  IF RLt(Tolerance, RAbs(RSub(total, One)))
        THEN IF total = Zero THEN Raise("ZeroDivisionError")
             ELSE Ok([k \in DOMAIN ws |-> RDiv(ws[k], total)])
        ELSE Ok(ws)

adjust_weights(cw, idx, nv) ==
    IF ~InRange(cw, idx) THEN Raise("IndexError")
    ELSE IF Delta(cw, idx, nv) = Zero THEN Ok(Assign(cw, idx, nv))
    ELSE Normalize(Redistribute(cw, idx, nv))

----------------------------------------------------------------------------
(* update_sunburst: the impact score column *)

ImpactScoreWaterTwice(row, ws) ==
    RAdd(RAdd(RAdd(RMul(row.Climate_Impact_Score, GetItem(ws, 0)),
                   RMul(row.Land_Biodiversity_Score, GetItem(ws, 1))),
              RMul(row.Water_Impact_Score, GetItem(ws, 2))),
         RMul(row.Chemical_Pollution_Score, GetItem(ws, 2)))

\* lines 236-241
ImpactScore(row, ws) ==
    RAdd(RAdd(RAdd(RMul(row.Climate_Impact_Score, GetItem(ws, 0)),
                   RMul(row.Land_Biodiversity_Score, GetItem(ws, 1))),
              RMul(row.Water_Impact_Score, GetItem(ws, 2))),
         RMul(row.Chemical_Pollution_Score, GetItem(ws, 3)))

\* the table load_and_preprocess_data leaves in agg_df: one row per
\* (diet_group, sex, age_group), four mean scores each
GroupRow(c, l, w, p) ==
    [Climate_Impact_Score |-> c, Land_Biodiversity_Score |-> l,
     Water_Impact_Score |-> w, Chemical_Pollution_Score |-> p]

AggTable ==
    << GroupRow(Rat(1, 1), Rat(2, 1), Rat(3, 1), Rat(4, 1)),
       GroupRow(Rat(-3, 2), Rat(0, 1), Rat(5, 4), Rat(7, 1)),
       GroupRow(Rat(2, 3), Rat(2, 3), Rat(-1, 1), Rat(1, 5)) >>

----------------------------------------------------------------------------
(* Bounds of the model *)

\* input weight vectors have components k / WeightGrid
WeightGrid == 4

\* new_value ranges over the slider steps -MaxOutside .. SliderSteps + MaxOutside
MaxOutside == 5

\* the sliders of the dashboard are moved to every SliderStride-th step
SliderStride == 5

\* the dashboard is followed while the stored weights have denominators
\* of at most MaxDen
MaxDen == 12

----------------------------------------------------------------------------
(* Inputs of a call of adjust_weights *)

GridWeights ==
    { <<Rat(a, WeightGrid), Rat(b, WeightGrid), Rat(c, WeightGrid),
        Rat(WeightGrid - a - b - c, WeightGrid)>> :
        <<a, b, c>> \in { t \in (0..WeightGrid) \X (0..WeightGrid) \X (0..WeightGrid) :
                            t[1] + t[2] + t[3] <= WeightGrid } }

OtherWeights ==
    { <<Rat(1, 10), Zero, Zero, Rat(9, 10)>>,
      <<Rat(1, 2), Rat(1, 2), Zero>>,
      <<Rat(1, 5), Rat(1, 5), Rat(1, 5), Rat(1, 5), Rat(1, 5)>> }

WeightInputs == GridWeights \cup OtherWeights

IndexInputs == -5..4

\* half the tolerance: offsets below and above 1e-6
Tiny == RDiv(Tolerance, Rat(2, 1))

NewValueInputs ==
    { RAdd(Rat(k, SliderSteps), RMul(Rat(m, 1), Tiny)) :
        k \in (-MaxOutside)..(SliderSteps + MaxOutside),
        m \in {-3, -1, 0, 1, 3} }

----------------------------------------------------------------------------
(* The dashboard: Spec *)

DashInit ==
    /\ stored_weights = INITIAL_WEIGHTS
    /\ callback = "none"
    /\ impact_score = <<>>
    /\ sunburst_pending = TRUE
    /\ agg_df = AggTable

AdjustIdle ==
    /\ current_weights = <<>>
    /\ index = 0
    /\ new_value = Zero
    /\ weights = <<>>
    /\ result = NoCall
    /\ pc = "idle"

Init == DashInit /\ AdjustIdle

WithinMaxDen(r) == \A k \in DOMAIN r.weights : r.weights[k][2] <= MaxDen

\* the callback fired by slider i taking the value v
update_weights(i, v) ==
    LET r == adjust_weights(stored_weights, i, v)
    IN  /\ ~sunburst_pending
        /\ WithinMaxDen(r)
        /\ callback' = r.kind
        /\ IF r.kind = "ok"
           THEN stored_weights' = r.weights /\ sunburst_pending' = TRUE
           ELSE UNCHANGED <<stored_weights, sunburst_pending>>
        /\ UNCHANGED <<impact_score, agg_df>>
        /\ UNCHANGED adjust_vars

update_sunburst ==
    /\ sunburst_pending
    /\ impact_score' = [r \in DOMAIN agg_df |-> ImpactScore(agg_df[r], stored_weights)]
    /\ sunburst_pending' = FALSE
    /\ UNCHANGED <<stored_weights, callback, agg_df>>
    /\ UNCHANGED adjust_vars

SliderInputs ==
    { Rat(k * SliderStride, SliderSteps) : k \in 0..(SliderSteps \div SliderStride) }

SliderMoved == \E i \in 0..3 : \E v \in SliderInputs : update_weights(i, v)

Next == SliderMoved \/ update_sunburst

Spec == Init /\ [][Next]_vars

----------------------------------------------------------------------------
(* One call of adjust_weights on any input: SpecAdjust *)

AdjustInit ==
    /\ current_weights \in WeightInputs
    /\ index \in IndexInputs
    /\ new_value \in NewValueInputs
    /\ weights = <<>>
    /\ result = NoCall
    /\ pc = "call"
    /\ DashInit

\* line 93: weights[index] raises IndexError
AdjustIndexError ==
    /\ pc = "call"
    /\ ~InRange(current_weights, index)
    /\ result' = Raise("IndexError")
    /\ pc' = "done"
    /\ UNCHANGED <<current_weights, index, new_value, weights>>
    /\ UNCHANGED dash_vars

\* lines 92-97: delta == 0
AdjustReturnEarly ==
    /\ pc = "call"
    /\ InRange(current_weights, index)
    /\ Delta(current_weights, index, new_value) = Zero
    /\ weights' = Assign(current_weights, index, new_value)
    /\ result' = Ok(weights')
    /\ pc' = "done"
    /\ UNCHANGED <<current_weights, index, new_value>>
    /\ UNCHANGED dash_vars

\* lines 92-114: delta # 0
AdjustRedistribute ==
    /\ pc = "call"
    /\ InRange(current_weights, index)
    /\ Delta(current_weights, index, new_value) # Zero
    /\ weights' = Redistribute(current_weights, index, new_value)
    /\ pc' = "normalize"
    /\ UNCHANGED <<current_weights, index, new_value, result>>
    /\ UNCHANGED dash_vars

\* lines 116-121
AdjustNormalize ==
    /\ pc = "normalize"
    /\ result' = Normalize(weights)
    /\ pc' = "done"
    /\ UNCHANGED <<current_weights, index, new_value, weights>>
    /\ UNCHANGED dash_vars

NextAdjust ==
    AdjustIndexError \/ AdjustReturnEarly \/ AdjustRedistribute \/ AdjustNormalize

SpecAdjust == AdjustInit /\ [][NextAdjust]_vars

----------------------------------------------------------------------------
(* Vocabulary of the properties *)

At(ws, i) == ws[i + 1]

InUnit(x) == RLe(Zero, x) /\ RLe(x, One)

WithinSlack(x) == RLe(RNeg(Tolerance), x) /\ RLe(x, RAdd(One, Tolerance))

TotalOf(ws) == RAdd(RAdd(ws[1], ws[2]), RAdd(ws[3], ws[4]))

ValidWeights(ws) ==
    /\ Len(ws) = 4
    /\ \A k \in 1..4 : InUnit(ws[k])
    /\ TotalOf(ws) = One

ValidCall == ValidWeights(current_weights) /\ index \in 0..3

Returned == pc = "done" /\ result.kind = "ok"

\* what the positions lo..hi of the input can absorb
RECURSIVE Capacity(_, _, _, _)
Capacity(ws, lo, hi, subtracting) ==
    IF lo > hi THEN Zero
    ELSE RAdd(IF subtracting THEN At(ws, lo) ELSE RSub(One, At(ws, lo)),
              Capacity(ws, lo + 1, hi, subtracting))

\* the reference walk, position by position, from the input alone
RefAbsorbed(cw, idx, nv, j) ==
    LET subtracting == RLt(At(cw, idx), nv)
        left == RSub(RAbs(RSub(nv, At(cw, idx))), Capacity(cw, idx + 1, j - 1, subtracting))
        room == IF subtracting THEN At(cw, j) ELSE RSub(One, At(cw, j))
    IN  IF j = idx + 1 \/ RLt(Tolerance, left)
        THEN (IF RLe(left, room) THEN left ELSE room)
        ELSE Zero

RefWalk(cw, idx, nv) ==
    [k \in 1..4 |->
        IF k - 1 < idx THEN cw[k]
        ELSE IF k - 1 = idx THEN nv
        ELSE IF RLt(At(cw, idx), nv) THEN RSub(cw[k], RefAbsorbed(cw, idx, nv, k - 1))
        ELSE RAdd(cw[k], RefAbsorbed(cw, idx, nv, k - 1))]

SaturatedBefore(j) ==
    \A k \in (index + 1)..(j - 1) :
        At(weights, k) = IF RLt(At(current_weights, index), new_value) THEN Zero ELSE One

----------------------------------------------------------------------------
(* Properties *)

\* C1: for a valid weight vector, an index in 0..3 and any new_value, the
\* call returns a vector whose elements sum to 1 within 1e-6.
C1_SumToOne ==
    (pc = "done" /\ ValidCall) =>
        /\ result.kind = "ok"
        /\ RLe(RAbs(RSub(TotalOf(result.weights), One)), Tolerance)

\* C2 as stated: for a valid weight vector, an index in 0..3 and any finite
\* new_value, every element of the returned vector lies in [-1e-6, 1+1e-6].
C2_BoundsAnyValue ==
    (Returned /\ ValidCall) =>
        \A k \in 1..4 : WithinSlack(result.weights[k])

\* C2 amended: for a valid weight vector, an index in 0..3 and a new_value
\* in [0,1], every element of the returned vector lies in [-1e-6, 1+1e-6],
\* the element at the adjusted index included.
C2_BoundsUnitValue ==
    (Returned /\ ValidCall /\ InUnit(new_value)) =>
        \A k \in 1..4 : WithinSlack(result.weights[k])

C2_Witness ==
    /\ Returned /\ ValidCall /\ InUnit(new_value)
    /\ result.weights # weights
    /\ RLt(Zero, At(result.weights, index))

\* C3: from INITIAL_WEIGHTS, every update_weights call triggered by a slider
\* returns a vector, and the stored vector has 4 elements in [0,1] summing
\* to 1.
C3_StoredAlwaysValid ==
    /\ callback \in {"none", "ok"}
    /\ ValidWeights(stored_weights)

\* C4: adjust_weights(w, i, w[i]) returns w element by element, by the
\* delta == 0 return, before any redistribution or normalization.
C4_Idempotence ==
    (ValidCall /\ new_value = At(current_weights, index)) =>
        /\ pc # "normalize"
        /\ pc = "done" => result = Ok(current_weights)

C4_Witness ==
    /\ pc = "done" /\ ValidCall
    /\ new_value = At(current_weights, index)
    /\ RLt(Zero, new_value)
    /\ result.kind = "ok"

C5_Example ==
    /\ pc = "done"
    /\ current_weights = INITIAL_WEIGHTS
    /\ index = 0
    /\ new_value = Rat(11, 20)

\* C5 as stated: adjust_weights([0.25,0.25,0.25,0.25], 0, 0.55) returns
\* [0.55, 0.0, 0.0, 0.20].
C5_AsStated ==
    C5_Example => result = Ok(<<Rat(11, 20), Zero, Zero, Rat(1, 5)>>)

\* C5 amended: adjust_weights([0.25,0.25,0.25,0.25], 0, 0.55) takes 0.25
\* from index 1 (down to 0), the remaining 0.05 from index 2 (down to 0.20),
\* leaves index 3 at 0.25, and returns [0.55, 0.0, 0.20, 0.25]; the final
\* normalization is a no-op.
C5_OrderSensitivity ==
    C5_Example =>
        /\ weights = <<Rat(11, 20), Zero, Rat(1, 5), Rat(1, 4)>>
        /\ result = Ok(weights)

C5_Witness == C5_Example /\ result.kind = "ok"

C6_Case ==
    /\ pc = "done"
    /\ ValidWeights(current_weights)
    /\ index = 3
    /\ new_value # At(current_weights, 3)

C6_Assigned == [current_weights EXCEPT ![4] = new_value]

C6_Total == RAdd(One, RSub(new_value, At(current_weights, 3)))

C6_Divided == Ok([k \in 1..4 |-> RDiv(C6_Assigned[k], C6_Total)])

\* C6 as stated: for index 3 and new_value # weights[3] the result is
\* [w0, w1, w2, new_value] with every element divided by 1 + delta.
C6_AsStated ==
    (C6_Case /\ C6_Total # Zero) => result = C6_Divided

\* C6 amended: for index 3 no position absorbs the delta; when
\* |delta| > 1e-6 the result is [w0, w1, w2, new_value] with every element
\* divided by 1 + delta, and when 0 < |delta| <= 1e-6 it is
\* [w0, w1, w2, new_value] undivided; when 1 + delta = 0 the division
\* raises ZeroDivisionError and nothing is returned.
\* adjust_weights([0.25,0.25,0.25,0.25], 3, 0.85) returns
\* [0.15625, 0.15625, 0.15625, 0.53125].
C6_LastIndex ==
    /\ C6_Case =>
        /\ weights = C6_Assigned
        /\ IF RLe(RAbs(RSub(C6_Total, One)), Tolerance) THEN result = Ok(C6_Assigned)
           ELSE IF C6_Total = Zero THEN result.kind = "ZeroDivisionError"
           ELSE result = C6_Divided
    /\ (C6_Case /\ current_weights = INITIAL_WEIGHTS /\ new_value = Rat(17, 20)) =>
        result = Ok(<<Rat(5, 32), Rat(5, 32), Rat(5, 32), Rat(17, 32)>>)

C6_Witness ==
    /\ C6_Case /\ current_weights = INITIAL_WEIGHTS /\ new_value = Rat(17, 20)
    /\ result.kind = "ok"

C6_WitnessUndivided ==
    C6_Case /\ result = Ok(C6_Assigned)

\* C7: a call with a vector of length other than 4 or an index outside
\* [0,4), negative ones included, ends in an error and returns no vector.
C7_FailFast ==
    (pc = "done" /\ (Len(current_weights) # 4 \/ index \notin 0..3)) =>
        result.kind \notin {"ok", "none"}

RowScores(row) ==
    <<row.Climate_Impact_Score, row.Land_Biodiversity_Score,
      row.Water_Impact_Score, row.Chemical_Pollution_Score>>

RECURSIVE WeightedSum(_, _, _)
WeightedSum(xs, ws, k) ==
    IF k = 0 THEN Zero ELSE RAdd(WeightedSum(xs, ws, k - 1), RMul(xs[k], ws[k]))

C8_Scores ==
    /\ agg_df = AggTable
    /\ ~sunburst_pending =>
        /\ DOMAIN impact_score = DOMAIN agg_df
        /\ \A r \in DOMAIN agg_df :
              impact_score[r] = WeightedSum(RowScores(agg_df[r]), stored_weights, 4)
        /\ stored_weights = INITIAL_WEIGHTS => impact_score[1] = Rat(5, 2)

\* C8: the combined score of every row is climate*weights[0] +
\* land*weights[1] + water*weights[2] + chemical*weights[3]; computing it
\* changes neither the aggregated table nor the weight vector; for
\* sub-scores (1,2,3,4) and weights [0.25,0.25,0.25,0.25] it is 2.5.
C8_CombinedScore ==
    /\ []C8_Scores
    /\ [][(sunburst_pending /\ ~sunburst_pending') =>
            (agg_df' = agg_df /\ stored_weights' = stored_weights)]_vars

C8_Witness ==
    /\ ~sunburst_pending
    /\ callback = "ok"
    /\ stored_weights # INITIAL_WEIGHTS
    /\ \E k \in 1..4 : stored_weights[k][2] \notin {1, 2, 4}

\* C9: for delta # 0 the vector held before the final normalization is the
\* reference walk: positions before index as in the input, new_value at
\* index, positions index+1..3 in ascending order each absorbing
\* min(remaining, available); a position changes only if all earlier
\* positions after index are saturated, and positions after the one where
\* the remainder reaches <= 1e-6 stay unchanged.
\* adjust_weights([0.1,0.0,0.0,0.9], 0, 0.5) returns [0.5, 0.0, 0.0, 0.5].
C9_GreedyWalk ==
    /\ (pc \in {"normalize", "done"} /\ ValidCall
            /\ new_value # At(current_weights, index)) =>
        /\ weights = RefWalk(current_weights, index, new_value)
        /\ \A j \in (index + 1)..3 :
              At(weights, j) # At(current_weights, j) => SaturatedBefore(j)
    /\ (pc = "done" /\ index = 0 /\ new_value = Rat(1, 2)
            /\ current_weights = <<Rat(1, 10), Zero, Zero, Rat(9, 10)>>) =>
        result = Ok(<<Rat(1, 2), Zero, Zero, Rat(1, 2)>>)

\* a walk that stops on a remainder within the tolerance and leaves a
\* later position with room untouched
C9_Witness ==
    /\ pc = "done" /\ ValidCall /\ index = 0
    /\ RLt(At(current_weights, 0), new_value)
    /\ At(weights, 1) = Zero
    /\ RLt(Zero, At(current_weights, 1))
    /\ RLt(Zero, At(weights, 2))
    /\ At(weights, 2) = At(current_weights, 2)
    /\ TotalOf(weights) # One

C10_Case == pc = "done" /\ ValidCall /\ InUnit(new_value)

C10_Exact ==
    /\ result.kind = "ok"
    /\ At(result.weights, index) = new_value
    /\ \A k \in 0..(index - 1) : At(result.weights, k) = At(current_weights, k)

C10_Enough ==
    LET subtracting == RLt(At(current_weights, index), new_value)
    IN  RLe(RSub(RAbs(RSub(new_value, At(current_weights, index))),
                 Capacity(current_weights, index + 1, 3, subtracting)),
            Tolerance)

C10_DividedUpToIndex ==
    \A k \in 0..index :
        At(result.weights, k) = RDiv(At(weights, k), TotalOf(weights))

\* C10 as stated: the returned weights[index] is new_value (and the
\* positions before index are as in the input) exactly when the later
\* positions can absorb |delta| within 1e-6; otherwise every element is
\* divided by the total and the returned weights[index] differs from
\* new_value.
C10_AsStated ==
    (C10_Case /\ result.kind = "ok") =>
        /\ C10_Exact <=> C10_Enough
        /\ ~C10_Enough =>
              /\ C10_DividedUpToIndex
              /\ At(result.weights, index) # new_value

\* C10 amended: the returned weights[index] is new_value and the positions
\* before index are as in the input exactly when the later positions can
\* absorb |delta| within 1e-6; otherwise, when the total before
\* normalization is 0 the call raises ZeroDivisionError, and else every
\* element is divided by that total, so that the returned weights[index] is
\* new_value/total, which differs from new_value unless new_value is 0.
C10_Residual ==
    C10_Case =>
        /\ C10_Exact <=> C10_Enough
        /\ ~C10_Enough =>
              IF TotalOf(weights) = Zero THEN result.kind = "ZeroDivisionError"
              ELSE /\ result.kind = "ok"
                   /\ C10_DividedUpToIndex
                   /\ At(result.weights, index) = new_value <=> new_value = Zero

C10_Witness ==
    /\ C10_Case /\ ~C10_Enough /\ result.kind = "ok"
    /\ new_value = Zero
    /\ RLt(Zero, At(current_weights, index))

C10_WitnessScaled ==
    /\ C10_Case /\ ~C10_Enough /\ result.kind = "ok"
    /\ index < 3
    /\ At(result.weights, index) # new_value

====
